---- MODULE Spec2Model ----
(***************************************************************************)
(* Model of the map components of the hospital-recommender client.         *)
(*                                                                         *)
(* Two live variants of MapComponent are modelled:                         *)
(*   - the "session" variant (src/unnamed/part_000): it asks the device    *)
(*     for the user's position once, keeps one Leaflet map in mapRef and   *)
(*     one route layer in routeLayerRef across prop changes;               *)
(*   - the "rebuild" variant (components/Map.jsx): its single effect       *)
(*     builds a new Leaflet map on every origin/destination change and     *)
(*     removes it in the effect's cleanup.                                 *)
(*                                                                         *)
(* Three further parts have a specification of their own: the origin       *)
(* resolution of the session variant with the hint and geocoder around it  *)
(* (SpecResolve), geocodeWithNominatim (SpecGeocode) and the App           *)
(* component's handleGetRecommendation (SpecApp).                          *)
(*                                                                         *)
(* Coordinates are [lat, lng] pairs; degrees are scaled by 10^4 so that    *)
(* they are integers.  A React state or prop change, the re-render and     *)
(* the effects it triggers are one atomic step (JavaScript is single       *)
(* threaded); the only suspension points are the device-location request   *)
(* and the awaits inside getRoute.                                         *)
(***************************************************************************)
EXTENDS Integers, Sequences, FiniteSets, TLC

\* ---------------------------------------------------------------- bounds
MaxUpdates == 3        \* destination prop changes in one component lifetime
MaxRebuilds == 2       \* prop changes of the rebuild variant

\* ---------------------------------------------------------------- values
\* an absent coordinate (null origin state, missing destination prop)
Null == << >>
\* mapRef.current === null
NoMap == 0
\* routeLayerRef.current === null
NoLayer == [id |-> 0, origin |-> Null, destination |-> Null, query |-> 0]
\* the viewport before any map exists
NoView == [kind |-> "none"]

\* device fixes the platform may report
Positions == { <<66000, 34000>>, <<65100, 33500>> }
\* hospital coordinates the parent may pass as the destination prop
Dests == { <<65244, 33792>>, <<72500, 51900>> }

\* [7.2526, 5.1931]: the fallback origin of the geolocation error callback
AkureFallback == <<72526, 51931>>

\* zoom level of L.map("map").setView(origin, 13)
InitialZoom == 13

\* What the directions service / the transport may answer to one request:
\*   "neterr"      fetch() rejects
\*   "unparsable"  res.json() rejects
\*   "non2xx"      res.ok is false, the body parses
\*   "okRoute"     2xx with a GeoJSON route
\*   "okInvalid"   2xx, the body parses but is not GeoJSON: L.geoJSON throws
Responses == {"neterr", "unparsable", "non2xx", "okRoute", "okInvalid"}
FailureResponses == {"neterr", "unparsable", "non2xx", "okInvalid"}

VARIABLES
    \* ---- session variant
    mounted,        \* the component is mounted
    destination,    \* the destination prop, Null when absent
    origin,         \* the origin state, Null until setOrigin
    geo,            \* "pending" while getCurrentPosition has called no callback
    updates,        \* number of destination prop changes so far
    mapRef,         \* mapRef.current: NoMap or the id of the Leaflet map
    mapsCreated,    \* number of L.map() calls so far
    view,           \* the map's viewport: NoView, a setView or a fitBounds
    markers,        \* the marker layers attached to the map, in order
    overlays,       \* the route layers attached to the map
    routeLayerRef,  \* routeLayerRef.current: NoLayer or a route layer
    layerSeq,       \* last id Leaflet stamped on a route layer
    inflight,       \* getRoute calls suspended in their awaits
    issued,         \* number of getRoute calls so far
    \* ---- rebuild variant
    phase,          \* "new", "mounted" or "unmounted"
    props,          \* the origin and destination props
    maps,           \* every map an effect run created, in creation order
    pending,        \* getRoute calls suspended in await fetch
    routes,         \* how each getRoute() call ended, in call order
    \* ---- origin resolution of the session variant, with its environment
    resolver,       \* "idle", "requested" or "resolved"
    originHint,     \* the location the user typed, "" when none
    geocoderAnswer, \* what the geocoder answers for originHint, Null for nothing
    devicePos,      \* what the platform delivered: a fix or an error
    resolvedOrigin, \* the argument of setOrigin, Null before
    geocodeCalls,   \* number of geocoder requests of the resolution
    \* ---- geocodeWithNominatim
    gcStage,        \* "idle", "fetching" or "returned"
    gcAddress,      \* the address argument
    gcResponse,     \* what the service answered
    gcResult,       \* how the call ended: thrown or a returned value
    \* ---- App: the recommendation form
    recommendation, \* the recommendation list state
    isLoading,      \* the isLoading state
    error,          \* the error state, "" when none
    mapUrl,         \* the mapUrl state
    path,           \* the router's current location
    requests,       \* handleGetRecommendation calls suspended in their awaits
    submitted,      \* number of submissions so far
    logged          \* what the last console.log of the handler printed

sessionVars == << mounted, destination, origin, geo, updates, mapRef, mapsCreated,
                  view, markers, overlays, routeLayerRef, layerSeq, inflight, issued >>
rebuildVars == << phase, props, maps, pending, routes >>
resolveVars == << resolver, originHint, geocoderAnswer, devicePos, resolvedOrigin,
                  geocodeCalls >>
geocodeVars == << gcStage, gcAddress, gcResponse, gcResult >>
appVars == << recommendation, isLoading, error, mapUrl, path, requests, submitted,
             logged >>
vars == << mounted, destination, origin, geo, updates, mapRef, mapsCreated,
           view, markers, overlays, routeLayerRef, layerSeq, inflight, issued,
           phase, props, maps, pending, routes,
           resolver, originHint, geocoderAnswer, devicePos, resolvedOrigin,
           geocodeCalls, gcStage, gcAddress, gcResponse, gcResult,
           recommendation, isLoading, error, mapUrl, path, requests, submitted,
           logged >>

\* ======================================================= session variant

\* body of the directions request: [[origin[1], origin[0]], [destination[1], destination[0]]]
RequestBody(o, d) == << <<o[2], o[1]>>, <<d[2], d[1]>> >>

\* if (!mapRef.current) mapRef.current = L.map("map") ...: the map id after the block
InitMapAlways(ref, created) == created + 1
InitMapOnce(ref, created) == IF ref = NoMap THEN created + 1 ELSE ref

\* if (routeLayerRef.current) mapRef.current.removeLayer(routeLayerRef.current)
KeepOldRoute(layers, ref) == layers
RemoveOldRoute(layers, ref) == IF ref = NoLayer THEN layers ELSE layers \ {ref}

\* The [origin, destination] effect, run with the values of the new render.
RouteEffect(o, d) ==
    IF o = Null \/ d = Null
    THEN UNCHANGED << mapRef, mapsCreated, view, markers, inflight, issued >>
    ELSE /\ mapRef' = InitMapOnce(mapRef, mapsCreated)
         /\ mapsCreated' = IF mapRef' = mapRef THEN mapsCreated ELSE mapsCreated + 1
         /\ view' = IF mapRef' = mapRef THEN view
                    ELSE [kind |-> "setView", center |-> o, zoom |-> InitialZoom]
         /\ markers' = markers \o << [role |-> "origin", at |-> o],
                                     [role |-> "destination", at |-> d] >>
         /\ issued' = issued + 1
         /\ inflight' = inflight \cup
                { [id |-> issued + 1, origin |-> o, destination |-> d,
                   method |-> "POST", auth |-> TRUE, body |-> RequestBody(o, d)] }

\* setOrigin(o) from a geolocation callback, then the re-render and its effect.
\* A state update on an unmounted component is dropped.
SetOrigin(o) ==
    /\ geo' = "done"
    /\ IF mounted
       THEN /\ origin' = o
            /\ RouteEffect(o, destination)
       ELSE UNCHANGED << origin, mapRef, mapsCreated, view, markers, inflight, issued >>
    /\ UNCHANGED << mounted, destination, updates, overlays, routeLayerRef, layerSeq >>

\* success callback of getCurrentPosition
GeoSuccess ==
    /\ geo = "pending"
    /\ \E pos \in Positions : SetOrigin(pos)
    /\ UNCHANGED rebuildVars
    /\ UNCHANGED resolveVars
    /\ UNCHANGED geocodeVars
    /\ UNCHANGED appVars

\* error callback of getCurrentPosition
GeoError ==
    /\ geo = "pending"
    /\ SetOrigin(AkureFallback)
    /\ UNCHANGED rebuildVars
    /\ UNCHANGED resolveVars
    /\ UNCHANGED geocodeVars
    /\ UNCHANGED appVars

\* The parent passes another destination prop; a new array re-runs the effect
\* even when it holds the same coordinates.
SetDestination ==
    /\ mounted
    /\ updates < MaxUpdates
    /\ \E d \in Dests \cup {Null} :
          /\ ~(d = Null /\ destination = Null)
          /\ destination' = d
          /\ RouteEffect(origin, d)
    /\ updates' = updates + 1
    /\ UNCHANGED << mounted, origin, geo, overlays, routeLayerRef, layerSeq >>
    /\ UNCHANGED rebuildVars
    /\ UNCHANGED resolveVars
    /\ UNCHANGED geocodeVars
    /\ UNCHANGED appVars

\* getRoute resumes after await fetch / await res.json() with the response resp.
GetRouteResume(f, resp) ==
    /\ inflight' = inflight \ {f}
    /\ CASE resp \in {"neterr", "unparsable", "non2xx"} ->
                UNCHANGED << overlays, routeLayerRef, layerSeq, view >>
         [] resp = "okInvalid" ->
                /\ overlays' = RemoveOldRoute(overlays, routeLayerRef)
                /\ UNCHANGED << routeLayerRef, layerSeq, view >>
         [] resp = "okRoute" ->
                LET layer == [id |-> layerSeq + 1, origin |-> f.origin,
                              destination |-> f.destination, query |-> f.id]
                IN /\ overlays' = RemoveOldRoute(overlays, routeLayerRef) \cup {layer}
                   /\ routeLayerRef' = layer
                   /\ layerSeq' = layerSeq + 1
                   /\ view' = [kind |-> "fitBounds", of |-> layer.id]
    /\ UNCHANGED << mounted, destination, origin, geo, updates, mapRef, mapsCreated,
                    markers, issued >>

FetchComplete ==
    /\ \E f \in inflight : \E resp \in Responses : GetRouteResume(f, resp)
    /\ UNCHANGED rebuildVars
    /\ UNCHANGED resolveVars
    /\ UNCHANGED geocodeVars
    /\ UNCHANGED appVars

\* The component is unmounted; neither effect returns a cleanup.
Unmount ==
    /\ mounted
    /\ mounted' = FALSE
    /\ UNCHANGED << destination, origin, geo, updates, mapRef, mapsCreated, view,
                    markers, overlays, routeLayerRef, layerSeq, inflight, issued >>
    /\ UNCHANGED rebuildVars
    /\ UNCHANGED resolveVars
    /\ UNCHANGED geocodeVars
    /\ UNCHANGED appVars

InitSession ==
    /\ mounted = TRUE
    /\ destination \in Dests \cup {Null}
    /\ origin = Null
    /\ geo = "pending"
    /\ updates = 0
    /\ mapRef = NoMap
    /\ mapsCreated = 0
    /\ view = NoView
    /\ markers = << >>
    /\ overlays = {}
    /\ routeLayerRef = NoLayer
    /\ layerSeq = 0
    /\ inflight = {}
    /\ issued = 0

\* ======================================================= rebuild variant

\* L.map("map").setView(origin, 13), the tile layer and the two markers
NewMap(o, d) ==
    [ removes |-> 0,
      view |-> [kind |-> "setView", center |-> o, zoom |-> InitialZoom],
      tile |-> TRUE,
      markers |-> << [role |-> "origin", at |-> o], [role |-> "destination", at |-> d] >>,
      overlays |-> 0 ]

\* return () => map.remove(): the effect's cleanup on the map of its own run
SkipCleanup(ms, m) == ms
CleanupOldest(ms, m) ==
    [ms EXCEPT ![1] = [@ EXCEPT !.removes = 1, !.tile = FALSE,
                                !.markers = << >>, !.overlays = 0]]
Cleanup(ms, m) ==
    [ms EXCEPT ![m] = [@ EXCEPT !.removes = @ + 1, !.tile = FALSE,
                                !.markers = << >>, !.overlays = 0]]

\* try { ... } catch (err) { console.error("Route error:", err) }: how the
\* promise of getRoute() ends when its body threw (thrown) or ran through
NoCatch(thrown) == IF thrown THEN "unhandled" ELSE "drawn"
TryCatch(thrown) == IF thrown THEN "failed" ELSE "drawn"

\* One run of the [origin, destination] effect on the map list ms.  fetch is
\* called with the coordinates as its init argument and the real init as a
\* third argument, which fetch ignores: the request is a GET without
\* credential or body.
RunEffect(ms, o, d) ==
    /\ maps' = Append(ms, NewMap(o, d))
    /\ routes' = Append(routes, "pending")
    /\ pending' = pending \cup
            { [map |-> Len(ms) + 1, origin |-> o, destination |-> d,
               method |-> "GET", auth |-> FALSE, body |-> Null] }

\* first render and first effect run
Mount ==
    /\ phase = "new"
    /\ phase' = "mounted"
    /\ \E o \in Positions, d \in Dests :
          /\ props' = << o, d >>
          /\ RunEffect(maps, o, d)
    /\ UNCHANGED sessionVars
    /\ UNCHANGED resolveVars
    /\ UNCHANGED geocodeVars
    /\ UNCHANGED appVars

\* a prop changes: the previous run's cleanup, then the effect again
ChangeProps ==
    /\ phase = "mounted"
    /\ Len(maps) <= MaxRebuilds
    /\ phase' = phase
    /\ \E o \in Positions, d \in Dests :
          /\ props' = << o, d >>
          /\ RunEffect(Cleanup(maps, Len(maps)), o, d)
    /\ UNCHANGED sessionVars
    /\ UNCHANGED resolveVars
    /\ UNCHANGED geocodeVars
    /\ UNCHANGED appVars

\* unmount runs the last effect run's cleanup
RebuildUnmount ==
    /\ phase = "mounted"
    /\ phase' = "unmounted"
    /\ maps' = Cleanup(maps, Len(maps))
    /\ UNCHANGED << props, pending, routes >>
    /\ UNCHANGED sessionVars
    /\ UNCHANGED resolveVars
    /\ UNCHANGED geocodeVars
    /\ UNCHANGED appVars

\* await fetch resolves (whatever the status): res.data is undefined, so
\* L.geoJSON(res.data) is an empty layer, added to the map of the closure.
GetRouteResolve ==
    /\ \E f \in pending :
          /\ pending' = pending \ {f}
          /\ maps' = [maps EXCEPT ![f.map].overlays = @ + 1]
          /\ routes' = [routes EXCEPT ![f.map] = TryCatch(FALSE)]
    /\ UNCHANGED << phase, props >>
    /\ UNCHANGED sessionVars
    /\ UNCHANGED resolveVars
    /\ UNCHANGED geocodeVars
    /\ UNCHANGED appVars

\* await fetch rejects: catch (err) logs it
GetRouteReject ==
    /\ \E f \in pending :
          /\ pending' = pending \ {f}
          /\ routes' = [routes EXCEPT ![f.map] = TryCatch(TRUE)]
    /\ UNCHANGED << phase, props, maps >>
    /\ UNCHANGED sessionVars
    /\ UNCHANGED resolveVars
    /\ UNCHANGED geocodeVars
    /\ UNCHANGED appVars

InitRebuild ==
    /\ phase = "new"
    /\ props = Null
    /\ maps = << >>
    /\ pending = {}
    /\ routes = << >>

\* ==================================================== origin resolution

\* pos.coords.accuracy values (metres) the platform may report
Accuracies == {50, 200, 5000, 5001, 99999}
\* what the user may have typed as location
Hints == {"", "Ikorodu", "Akure", "Ikeja"}
\* coordinates the geocoder may answer
GeocodedPlaces == { <<66194, 35105>>, <<72571, 52058>> }

NoPos == [kind |-> "none", latitude |-> 0, longitude |-> 0, accuracy |-> 0]
PosError == [kind |-> "error", latitude |-> 0, longitude |-> 0, accuracy |-> 0]
DeviceFixes ==
    { [kind |-> "fix", latitude |-> p[1], longitude |-> p[2], accuracy |-> a] :
        p \in Positions, a \in Accuracies }

\* (pos) => setOrigin([pos.coords.latitude, pos.coords.longitude])
OnPositionSwapped(pos) == << pos.longitude, pos.latitude >>
OnPosition(pos) == << pos.latitude, pos.longitude >>

\* (err) => setOrigin([7.2526, 5.1931])
OnPositionError == AkureFallback

\* The mount effect calls navigator.geolocation.getCurrentPosition; the hint
\* and the geocoder's answer for it are the environment of the attempt.
RequestPosition ==
    /\ resolver = "idle"
    /\ resolver' = "requested"
    /\ \E h \in Hints :
          /\ originHint' = h
          /\ geocoderAnswer' \in (IF h = "" THEN {Null} ELSE GeocodedPlaces \cup {Null})
    /\ UNCHANGED << devicePos, resolvedOrigin, geocodeCalls >>
    /\ UNCHANGED << sessionVars, rebuildVars >>
    /\ UNCHANGED geocodeVars
    /\ UNCHANGED appVars

\* the success callback runs with a device fix
PositionSuccess ==
    /\ resolver = "requested"
    /\ resolver' = "resolved"
    /\ \E pos \in DeviceFixes :
          /\ devicePos' = pos
          /\ resolvedOrigin' = OnPosition(pos)
    /\ UNCHANGED << originHint, geocoderAnswer, geocodeCalls >>
    /\ UNCHANGED << sessionVars, rebuildVars >>
    /\ UNCHANGED geocodeVars
    /\ UNCHANGED appVars

\* the error callback runs: permission denied, position unavailable
PositionError ==
    /\ resolver = "requested"
    /\ resolver' = "resolved"
    /\ devicePos' = PosError
    /\ resolvedOrigin' = OnPositionError
    /\ UNCHANGED << originHint, geocoderAnswer, geocodeCalls >>
    /\ UNCHANGED << sessionVars, rebuildVars >>
    /\ UNCHANGED geocodeVars
    /\ UNCHANGED appVars

InitResolve ==
    /\ resolver = "idle"
    /\ originHint = ""
    /\ geocoderAnswer = Null
    /\ devicePos = NoPos
    /\ resolvedOrigin = Null
    /\ geocodeCalls = 0

\* ================================================= geocodeWithNominatim

\* Strings are sequences of characters.
DigitChars == << "0", "1", "2", "3", "4", "5", "6", "7", "8", "9" >>
IsDigit(c) == \E i \in DOMAIN DigitChars : DigitChars[i] = c
DigitVal(c) == (CHOOSE i \in DOMAIN DigitChars : DigitChars[i] = c) - 1

RECURSIVE DigitPrefixLen(_)
DigitPrefixLen(str) ==
    IF str = << >> \/ ~IsDigit(Head(str)) THEN 0 ELSE 1 + DigitPrefixLen(Tail(str))

RECURSIVE ToNat(_)
ToNat(ds) ==
    IF ds = << >> THEN 0
    ELSE 10 * ToNat(SubSeq(ds, 1, Len(ds) - 1)) + DigitVal(ds[Len(ds)])

\* parseFloat: an optional sign, digits, an optional fraction; what follows
\* the longest numeric prefix is ignored and a string without one is NaN.
\* The value is in units of 10^-4; fraction digits after the fourth are cut.
ParseFloat(str) ==
    LET neg == str # << >> /\ Head(str) = "-"
        body == IF neg THEN Tail(str) ELSE str
        n == DigitPrefixLen(body)
        rest == SubSeq(body, n + 1, Len(body))
        hasDot == rest # << >> /\ Head(rest) = "."
        m == IF hasDot THEN DigitPrefixLen(Tail(rest)) ELSE 0
        frac == IF hasDot THEN SubSeq(Tail(rest), 1, m) ELSE << >>
        frac4 == SubSeq(frac \o << "0", "0", "0", "0" >>, 1, 4)
        mag == 10000 * ToNat(SubSeq(body, 1, n)) + ToNat(frac4)
    IN IF n = 0 /\ m = 0 THEN [nan |-> TRUE, v |-> 0]
       ELSE [nan |-> FALSE, v |-> IF neg THEN 0 - mag ELSE mag]

\* lat and lon fields as Nominatim sends them: JSON strings
LatStrings == { << "6", ".", "5", "2", "4", "4" >>,
                << "-", "0", ".", "5" >>,
                << "n", "/", "a" >> }
LonStrings == { << "3", ".", "3", "7", "9", "2" >>,
                << "7", ".", "2", "5", "E" >>,
                << "1", "0" >> }
Places == { [lat |-> a, lon |-> o] : a \in LatStrings, o \in LonStrings }

\* longest response array the service answers
MaxPlaces == 2

\* What the service / transport may answer:
\*   "neterr"      fetch() rejects
\*   "unparsable"  response.json() rejects
\*   "jsonNull"    the body is the JSON value null
\*   "object"      the body is a JSON object, not an array
\*   "array"       the body is an array of places
GeocodeResponses ==
    { [kind |-> k, data |-> << >>] : k \in {"neterr", "unparsable", "jsonNull", "object"} }
    \cup { [kind |-> "array", data |-> d] :
             d \in UNION { [1..n -> Places] : n \in 0..MaxPlaces } }

NoResponse == [kind |-> "none", data |-> << >>]
NoResult == [threw |-> FALSE, value |-> Null]

\* The try block: whether it throws and, if not, what it returns.
GeocodeTry(resp) ==
    CASE resp.kind \in {"neterr", "unparsable", "jsonNull"} ->
            [thrown |-> TRUE, value |-> Null]
      [] resp.kind = "object" ->
            [thrown |-> FALSE, value |-> Null]
      [] resp.kind = "array" ->
            IF Len(resp.data) = 0
            THEN [thrown |-> FALSE, value |-> Null]
            ELSE [thrown |-> FALSE,
                  value |-> << ParseFloat(resp.data[1].lat),
                               ParseFloat(resp.data[1].lon) >>]

\* try { ... } catch (err) { console.error(...); return null; }
GeocodeUncaught(resp) ==
    [threw |-> GeocodeTry(resp).thrown, value |-> GeocodeTry(resp).value]
GeocodeWithNominatim(resp) ==
    IF GeocodeTry(resp).thrown
    THEN [threw |-> FALSE, value |-> Null]
    ELSE [threw |-> FALSE, value |-> GeocodeTry(resp).value]

\* geocodeWithNominatim(address) is called and suspends in await fetch
GeocodeCall ==
    /\ gcStage = "idle"
    /\ gcStage' = "fetching"
    /\ gcAddress' \in {"Ikorodu General Hospital", "12 Marina Rd, Lagos"}
    /\ UNCHANGED << gcResponse, gcResult >>
    /\ UNCHANGED << sessionVars, rebuildVars, resolveVars >>
    /\ UNCHANGED appVars

\* the awaits end and the call returns (or throws)
GeocodeReturn ==
    /\ gcStage = "fetching"
    /\ gcStage' = "returned"
    /\ \E resp \in GeocodeResponses :
          /\ gcResponse' = resp
          /\ gcResult' = GeocodeWithNominatim(resp)
    /\ UNCHANGED gcAddress
    /\ UNCHANGED << sessionVars, rebuildVars, resolveVars >>
    /\ UNCHANGED appVars

InitGeocode ==
    /\ gcStage = "idle"
    /\ gcAddress = ""
    /\ gcResponse = NoResponse
    /\ gcResult = NoResult

\* =================================================================== App

\* submissions in one page lifetime
MaxSubmits == 2

\* recommendation lists and map urls the backend may send
RecommendationLists == { << >>, << "LUTH" >>, << "Reddington", "LASUTH" >> }
MapUrls == { "/static/route_1.html" }

\* What /api/recommend or the transport may answer:
\*   "neterr"        fetch() rejects
\*   "non2xx"        res.ok is false; message is errorData.message, "" when
\*                   the body has none or does not parse
\*   "okUnparsable"  2xx, res.json() rejects
\*   "ok"            2xx with a JSON object that may lack either field
AppResponses ==
    { [kind |-> "neterr", message |-> "", hasRecs |-> FALSE, recs |-> << >>,
       hasMap |-> FALSE, map |-> ""],
      [kind |-> "okUnparsable", message |-> "", hasRecs |-> FALSE, recs |-> << >>,
       hasMap |-> FALSE, map |-> ""] }
    \cup { [kind |-> "non2xx", message |-> m, hasRecs |-> FALSE, recs |-> << >>,
            hasMap |-> FALSE, map |-> ""] : m \in {"", "No hospital found"} }
    \cup { [kind |-> "ok", message |-> "", hasRecs |-> TRUE, recs |-> r,
            hasMap |-> TRUE, map |-> u] : r \in RecommendationLists, u \in MapUrls }
    \cup { [kind |-> "ok", message |-> "", hasRecs |-> FALSE, recs |-> << >>,
            hasMap |-> FALSE, map |-> ""] }

\* the message of the error the try block throws for a response
ThrownMessage(resp) ==
    CASE resp.kind = "neterr" -> "Failed to fetch"
      [] resp.kind = "okUnparsable" -> "Unexpected end of JSON input"
      [] resp.kind = "non2xx" -> resp.message

\* error.message || "Internal Server Error"
MessageOrDefault(msg) == IF msg = "" THEN "Internal Server Error" ELSE msg

\* handleGetRecommendation up to its first await
Submit ==
    /\ path = "/recommendation"
    /\ submitted < MaxSubmits
    /\ error' = ""
    /\ isLoading' = TRUE
    /\ submitted' = submitted + 1
    /\ requests' = requests \cup {submitted + 1}
    /\ logged' = "formData"
    /\ UNCHANGED << recommendation, mapUrl, path >>
    /\ UNCHANGED << sessionVars, rebuildVars, resolveVars, geocodeVars >>

\* handleGetRecommendation of request r resumes with the response resp
HandleResponse(r, resp) ==
    /\ requests' = requests \ {r}
    /\ isLoading' = FALSE
    /\ IF resp.kind = "ok"
       THEN /\ recommendation' = (IF resp.hasRecs THEN resp.recs ELSE << >>)
            /\ mapUrl' = (IF resp.hasMap THEN resp.map ELSE "")
            /\ logged' = "data"
            /\ path' = "/recommend"
            /\ UNCHANGED error
       ELSE /\ error' = MessageOrDefault(ThrownMessage(resp))
            /\ logged' = "error"
            /\ UNCHANGED << recommendation, mapUrl, path >>
    /\ UNCHANGED submitted

Complete ==
    /\ \E r \in requests : \E resp \in AppResponses : HandleResponse(r, resp)
    /\ UNCHANGED << sessionVars, rebuildVars, resolveVars, geocodeVars >>

\* the user follows a Link of Nav or Home
FollowLink ==
    /\ \E to \in {"/", "/recommendation"} :
          /\ to # path
          /\ path' = to
    /\ UNCHANGED << recommendation, isLoading, error, mapUrl, requests, submitted,
                    logged >>
    /\ UNCHANGED << sessionVars, rebuildVars, resolveVars, geocodeVars >>

InitApp ==
    /\ recommendation = << >>
    /\ isLoading = FALSE
    /\ error = ""
    /\ mapUrl = ""
    /\ path = "/"
    /\ requests = {}
    /\ submitted = 0
    /\ logged = ""

Init == InitSession /\ InitRebuild /\ InitResolve /\ InitGeocode /\ InitApp

Next == GeoSuccess \/ GeoError \/ SetDestination \/ FetchComplete \/ Unmount

Spec == Init /\ [][Next]_vars

\* The runtime's guarantees: the transport ends every request; the platform
\* promises no answer to getCurrentPosition, which is called without options
\* and so without a timeout.
FairSpec == Spec /\ WF_vars(FetchComplete)

NextRebuild == Mount \/ ChangeProps \/ RebuildUnmount \/ GetRouteResolve \/ GetRouteReject

SpecRebuild == Init /\ [][NextRebuild]_vars

\* The transport ends every request: fetch resolves or rejects.
FairSpecRebuild == SpecRebuild /\ WF_vars(GetRouteResolve \/ GetRouteReject)

NextResolve == RequestPosition \/ PositionSuccess \/ PositionError

SpecResolve == Init /\ [][NextResolve]_vars

NextGeocode == GeocodeCall \/ GeocodeReturn

SpecGeocode == Init /\ [][NextGeocode]_vars

NextApp == Submit \/ Complete \/ FollowLink

SpecApp == Init /\ [][NextApp]_vars

\* ================================================================ claims

\* accuracy (metres) above which a device fix counts as poor
PoorAccuracyThreshold == 5000

Roles == {"origin", "destination"}
MarkersOf(r) == { i \in DOMAIN markers : markers[i].role = r }

\* C1: the outcome of a directions fetch whose query a later update has
\* superseded is discarded: when it completes, the overlay, the route layer
\* reference and the viewport stay as they were.
C1_StaleOutcomeDiscarded ==
    [][\A f \in inflight :
          (f \notin inflight' /\ f.id < issued)
              => UNCHANGED << overlays, routeLayerRef, layerSeq, view >>]_vars

\* C2: whenever a route overlay becomes visible, it is the route of the
\* session's most recent origin/destination pair, whatever the order in which
\* the in-flight requests complete.
C2_OverlayIsForLatestPair ==
    [][\A l \in overlays' \ overlays :
          l.origin = origin /\ l.destination = destination]_vars

\* C3: at most one route overlay is attached to the map, and it is the one
\* routeLayerRef holds: applying a successful outcome removes the previous
\* overlay before adding the new one.
C3_AtMostOneOverlay ==
    /\ Cardinality(overlays) <= 1
    /\ overlays \subseteq {routeLayerRef}

\* C3 witness: a second route layer has replaced an earlier one while another
\* fetch is still in flight.
C3_Witness ==
    /\ \E l \in overlays : l.id >= 2
    /\ inflight # {}

C5_OneMarkerPerRole ==
    \A r \in Roles : Cardinality(MarkersOf(r)) <= 1

\* C6: every map is removed at most once, unmounting removes the live map
\* and releases its tile layer, markers and overlays, and once the component
\* is unmounted every map it created has been removed exactly once.
C6_TornDownExactlyOnce ==
    /\ [](\A m \in DOMAIN maps : maps[m].removes <= 1)
    /\ [](phase = "unmounted" => \A m \in DOMAIN maps : maps[m].removes = 1)
    /\ [][(phase = "mounted" /\ phase' = "unmounted")
            => /\ maps'[Len(maps)].removes = 1
               /\ maps'[Len(maps)].tile = FALSE
               /\ maps'[Len(maps)].markers = << >>
               /\ maps'[Len(maps)].overlays = 0]_vars

\* C6 witness: the component was unmounted after at least one prop change.
C6_Witness ==
    /\ phase = "unmounted"
    /\ Len(maps) >= 2

\* C7: a map that has been removed is never touched again, in particular not
\* by a directions fetch that resolves after the removal.
C7_NoMutationAfterTeardown ==
    [][\A m \in DOMAIN maps : maps[m].removes > 0 => maps'[m] = maps[m]]_vars

\* C8: an origin resolution that completes after the destination has changed
\* is not applied as the origin.
C8_SupersededOriginNotApplied ==
    [][origin' # origin => updates = 0]_vars

\* C9: a failed directions fetch (network error, non-2xx response, malformed
\* body) neither removes nor replaces the existing overlay and draws none.
C9_FailedFetchLeavesOverlay ==
    [][(\E f \in inflight : \E resp \in FailureResponses : GetRouteResume(f, resp))
          => UNCHANGED << overlays, routeLayerRef, layerSeq >>]_vars

\* C10: every origin resolution eventually completes while the component
\* stays mounted: a device request that is not answered is ended by a timeout
\* and takes the failure branch.
C10_OriginEventuallyResolved ==
    <>(geo = "done" \/ ~mounted)

C12_GoodFixIsDeviceObserved ==
    (resolver = "resolved" /\ devicePos.kind = "fix"
        /\ devicePos.accuracy <= PoorAccuracyThreshold)
      => /\ resolvedOrigin = << devicePos.latitude, devicePos.longitude >>
         /\ geocodeCalls = 0

\* C12 witness: a fix exactly at the threshold, with a hint that would geocode.
C12_Witness ==
    /\ resolver = "resolved"
    /\ devicePos.kind = "fix"
    /\ devicePos.accuracy = PoorAccuracyThreshold
    /\ originHint # ""
    /\ geocoderAnswer # Null

\* C13: a device fix with accuracy worse than the threshold and a non-empty
\* hint resolves to the geocoded coordinate when the hint geocodes, and to the
\* device coordinate when it does not.
C13_PoorFixUsesHint ==
    (resolver = "resolved" /\ devicePos.kind = "fix"
        /\ devicePos.accuracy > PoorAccuracyThreshold /\ originHint # "")
      => resolvedOrigin = IF geocoderAnswer # Null THEN geocoderAnswer
                          ELSE << devicePos.latitude, devicePos.longitude >>

\* C14: when the device location fails, the origin is the geocoded hint if a
\* hint is supplied and geocodes, and the default coordinate otherwise.
C14_DeviceFailureFallsBack ==
    (resolver = "resolved" /\ devicePos.kind = "error")
      => resolvedOrigin = IF originHint # "" /\ geocoderAnswer # Null
                          THEN geocoderAnswer
                          ELSE AkureFallback

\* C15: an effect run with origin or destination absent places the marker of
\* the input that is present and issues no directions fetch; a fetch is issued
\* only when both are present.
C15_PartialUpdatePlacesMarker ==
    [][(updates' # updates \/ origin' # origin)
         => /\ (origin' = Null \/ destination' = Null)
                => /\ inflight' = inflight
                   /\ destination' # Null
                        => \E i \in DOMAIN markers' :
                              /\ markers'[i].role = "destination"
                              /\ markers'[i].at = destination'
                   /\ origin' # Null
                        => \E i \in DOMAIN markers' :
                              /\ markers'[i].role = "origin"
                              /\ markers'[i].at = origin'
            /\ inflight' # inflight
                => (origin' # Null /\ destination' # Null)]_vars

\* C16: when the directions fetch of the current pair fails and no overlay is
\* present, the viewport is fitted to the origin and destination markers and
\* no line is drawn.
C16_FailureFitsMarkers ==
    [][\A f \in inflight :
          (/\ f.id = issued
           /\ overlays = {}
           /\ \E resp \in FailureResponses : GetRouteResume(f, resp))
              => /\ view'.kind = "fitMarkers"
                 /\ overlays' = {}]_vars

\* C17: every directions request is a POST with the credential header and the
\* body [[origin.lon, origin.lat], [destination.lon, destination.lat]].
C17_RequestIsPostWithSwappedBody ==
    \A f \in pending :
        /\ f.method = "POST"
        /\ f.auth
        /\ f.body = << << f.origin[2], f.origin[1] >>,
                       << f.destination[2], f.destination[1] >> >>

\* C18: geocodeWithNominatim never throws; for a non-empty array it returns
\* [lat, lon] parsed from the first element, and it returns null for an empty
\* array, a network error and an unparsable response.
C18_GeocodeNeverThrows ==
    gcStage = "returned"
      => /\ ~gcResult.threw
         /\ (gcResponse.kind = "array" /\ Len(gcResponse.data) > 0)
              => gcResult.value = << ParseFloat(gcResponse.data[1].lat),
                                     ParseFloat(gcResponse.data[1].lon) >>
         /\ (gcResponse.kind \in {"neterr", "unparsable"}
               \/ (gcResponse.kind = "array" /\ Len(gcResponse.data) = 0))
              => gcResult.value = Null

\* C18 witness: two different places were answered and the call returned the
\* first one, "-0.5" parsed as -0.5 and "7.25E" as 7.25.
C18_Witness ==
    /\ gcStage = "returned"
    /\ gcResponse.kind = "array"
    /\ Len(gcResponse.data) = 2
    /\ gcResponse.data[1] # gcResponse.data[2]
    /\ gcResult.value = << [nan |-> FALSE, v |-> 0 - 5000],
                           [nan |-> FALSE, v |-> 72500] >>

\* C19: isLoading is true exactly while a recommendation request is in
\* flight.
C19_LoadingIffInFlight ==
    isLoading <=> (requests # {})

\* C20: a completion on a 2xx response replaces the list and mapUrl by the
\* response's values ([] and "" when missing), leaves error empty and goes to
\* /recommend; a completion on a non-2xx response or a network or parse error
\* leaves the list and mapUrl, sets a non-empty error and does not navigate.
C20_TwoOutcomes ==
    [][\A r \in requests : \A resp \in AppResponses :
          HandleResponse(r, resp)
            => IF resp.kind = "ok"
               THEN /\ recommendation' = (IF resp.hasRecs THEN resp.recs ELSE << >>)
                    /\ mapUrl' = (IF resp.hasMap THEN resp.map ELSE "")
                    /\ error' = ""
                    /\ path' = "/recommend"
               ELSE /\ recommendation' = recommendation
                    /\ mapUrl' = mapUrl
                    /\ error' # ""
                    /\ path' = path]_vars

\* the maps that were created and not yet removed
LiveMaps == { m \in DOMAIN maps : maps[m].removes = 0 }

\* C21: in the variant that rebuilds the map on every change, at most one map
\* is live at any time: every map but the newest has been removed by its
\* run's cleanup before the next run created its own, and none is live after
\* the unmount.
C21_AtMostOneLiveMap ==
    /\ Cardinality(LiveMaps) <= 1
    /\ LiveMaps \subseteq {Len(maps)}
    /\ phase = "mounted" => LiveMaps = {Len(maps)}
    /\ phase = "unmounted" => LiveMaps = {}

\* C21 witness: after two prop changes the third map is the live one while
\* a request of an earlier run is still in flight.
C21_Witness ==
    /\ Len(maps) >= 3
    /\ LiveMaps = {Len(maps)}
    /\ \E f \in pending : f.map < Len(maps)

====
